---------------------------- MODULE Spec2Model ----------------------------
(***************************************************************************)
(* Daily Mastermind (src/app.py): the pattern generator, the scorer, the   *)
(* cookie session of one client and the three request handlers.            *)
(*                                                                         *)
(* Spec       the session state machine: the wall clock, one client's      *)
(*            session and the last response it was sent.                   *)
(* SpecScore  check_correct applied to every guess and pattern of length 4 *)
(*            over the six colours.                                        *)
(* SpecGen    first visits of several clients handled by threads of one    *)
(*            process, get_current_daily_pattern taken call by call.       *)
(* SpecRace   overlapping make_guess requests of one client.               *)
(***************************************************************************)
EXTENDS Integers, Sequences, FiniteSets, TLC

VARIABLES
    clock,      \* the server's calendar day, counted from Epoch
    session,    \* flask.session of the client: a function on the keys it holds
    response,   \* the last response the client was sent
    probe,      \* SpecScore only: one application of check_correct
    rng,        \* the state of numpy's process-wide generator (np.random)
    inflight    \* SpecGen, SpecRace: the requests being handled, by worker thread

vars == <<clock, session, response, probe, rng, inflight>>

-----------------------------------------------------------------------------
(* Constants of the program *)

MAX_INPUTS == 12

CODE_LENGTH == 4

\* len(COLORS), and the 6 of np.random.choice(6, 4)
NUM_COLORS == 6

DEFAULT_SECRET == 98765

\* DAILY_PATTERN_OFFSET is not set in the environment: the fallback is used
SECRET_OFFSET == DEFAULT_SECRET

(* Bounds of the model *)

\* the clock advances at most this many days past Epoch
MaxDay == 1

\* the first day of the model: the next midnight ends a month and a year
Epoch == [year |-> 2024, month |-> 12, day |-> 31]

\* JSON null / Python None in a response field
Null == <<>>

-----------------------------------------------------------------------------
(* datetime.date *)

IsLeap(y) == (y % 4 = 0 /\ y % 100 # 0) \/ y % 400 = 0

DaysInMonth(y, m) ==
    IF m = 2 THEN (IF IsLeap(y) THEN 29 ELSE 28)
    ELSE IF m \in {4, 6, 9, 11} THEN 30 ELSE 31

NextDate(d) ==
    IF d.day < DaysInMonth(d.year, d.month)
    THEN [d EXCEPT !.day = d.day + 1]
    ELSE IF d.month < 12
         THEN [year |-> d.year, month |-> d.month + 1, day |-> 1]
         ELSE [year |-> d.year + 1, month |-> 1, day |-> 1]

RECURSIVE DateOf(_)
DateOf(n) == IF n = 0 THEN Epoch ELSE NextDate(DateOf(n - 1))

\* date.today() at clock value c
today(c) == DateOf(c)

\* int(d.strftime("%Y%m%d")): the digits YYYYMMDD read as one integer
strftime_int(d) == d.year * 10000 + d.month * 100 + d.day

\* d.isoformat(): "YYYY-MM-DD", kept as its three fields
isoformat(d) == <<d.year, d.month, d.day>>

-----------------------------------------------------------------------------
(* numpy.random, legacy global generator *)

\* np.random.seed(s); np.random.choice(6, 4).tolist(): the first four draws of
\* MT19937 seeded with s, each masked to three bits and rejected above 5.
\* The rows are the generator's output for the seeds of Epoch and the days after.
seeded_choice(s) ==
    CASE s = 20339996 -> <<3, 2, 1, 4>>
      [] s = 20348866 -> <<5, 4, 5, 1>>
      [] s = 20348867 -> <<3, 1, 5, 5>>
      [] s = 20348868 -> <<5, 4, 4, 2>>
      [] s = 20348869 -> <<0, 3, 4, 5>>
      [] s = 20348870 -> <<2, 4, 4, 5>>
      [] s = 20348871 -> <<0, 1, 0, 0>>

\* create_pattern() when its own date.today() reads day c
create_pattern(c) ==
    LET seed_value == strftime_int(today(c)) + SECRET_OFFSET
    IN  seeded_choice(seed_value)

\* The generator's state: seeded with an integer and drawn from so many times,
\* or seeded from the operating system's entropy (at import, and by seed(None)),
\* its content then unknown.
np_random_seed(s) == [kind |-> "seeded", seed |-> s, drawn |-> 0]

np_random_seed_None == [kind |-> "entropy", seed |-> 0, drawn |-> 0]

\* the first twelve accepted draws below 6 of MT19937 seeded with s
seeded_draws(s) ==
    CASE s = 20339996 -> <<3, 2, 1, 4, 0, 1, 0, 3, 2, 1, 0, 2>>
      [] s = 20348866 -> <<5, 4, 5, 1, 0, 5, 5, 1, 0, 0, 5, 0>>
      [] s = 20348867 -> <<3, 1, 5, 5, 5, 2, 5, 3, 5, 3, 4, 2>>
      [] s = 20348868 -> <<5, 4, 4, 2, 0, 3, 5, 3, 2, 0, 2, 1>>

\* np.random.choice(6, 4).tolist() on a seeded generator in state r
seeded_next_choice(r) ==
    SubSeq(seeded_draws(r.seed), r.drawn + 1, r.drawn + CODE_LENGTH)

\* the generator after those draws
after_choice(r) ==
    IF r.kind = "seeded" THEN [r EXCEPT !.drawn = r.drawn + CODE_LENGTH] ELSE r

\* the generator a whole call of create_pattern leaves behind (line 39)
after_create_pattern == np_random_seed_None

-----------------------------------------------------------------------------
(* check_correct *)

RECURSIVE CountEq_SkipsFirst(_, _, _)
\* fault: the first position is left out
CountEq_SkipsFirst(g, p, i) ==
    IF i <= 1 THEN 0
    ELSE CountEq_SkipsFirst(g, p, i - 1) + (IF g[i] = p[i] THEN 1 ELSE 0)

RECURSIVE CountEq(_, _, _)
\* np.sum(guess_arr == pattern_arr), over positions 1..i
CountEq(g, p, i) ==
    IF i = 0 THEN 0
    ELSE CountEq(g, p, i - 1) + (IF g[i] = p[i] THEN 1 ELSE 0)

RECURSIVE Count(_, _, _)
\* Counter(seq)[v], over positions 1..i
Count(seq, v, i) ==
    IF i = 0 THEN 0
    ELSE Count(seq, v, i - 1) + (IF seq[i] = v THEN 1 ELSE 0)

Min(a, b) == IF a < b THEN a ELSE b

RECURSIVE SumMin_PerPosition(_, _, _)
\* fault: every position of p counts, a repeated value more than once
SumMin_PerPosition(p, g, i) ==
    IF i = 0 THEN 0
    ELSE SumMin_PerPosition(p, g, i - 1)
         + Min(Count(p, p[i], Len(p)), Count(g, p[i], Len(g)))

RECURSIVE SumMin(_, _, _)
\* sum((Counter(p) & Counter(g)).values()): each value of p, taken at its first
\* position among 1..i, counts min(Counter(p)[v], Counter(g)[v])
SumMin(p, g, i) ==
    IF i = 0 THEN 0
    ELSE SumMin(p, g, i - 1)
         + (IF Count(p, p[i], i - 1) = 0
            THEN Min(Count(p, p[i], Len(p)), Count(g, p[i], Len(g)))
            ELSE 0)

\* fault: the exact matches are not taken off the colour matches
check_correct_NoSubtract(guess, original_pattern) ==
    LET reds == CountEq(guess, original_pattern, Len(guess))
        total_matches == SumMin(original_pattern, guess, Len(original_pattern))
    IN  [reds |-> reds, whites |-> total_matches]

check_correct(guess, original_pattern) ==
    LET reds == CountEq(guess, original_pattern, Len(guess))
        total_matches == SumMin(original_pattern, guess, Len(original_pattern))
        whites == total_matches - reds
    IN  [reds |-> reds, whites |-> whites]

-----------------------------------------------------------------------------
(* flask.session *)

EmptySession == [k \in {} |-> Null]

HasKey(s, k) == k \in DOMAIN s

\* session.get(k, default)
Get(s, k, default) == IF HasKey(s, k) THEN s[k] ELSE default

-----------------------------------------------------------------------------
(* get_current_daily_pattern *)

\* fault: every load is taken for a new day
is_new_day_Always(s, c) == TRUE

\* session.get('date') != current_date, the clock reading day c
is_new_day(s, c) ==
    IF HasKey(s, "date") THEN s.date # isoformat(today(c)) ELSE TRUE

\* fault: a reset keeps the guesses of the day before
get_current_daily_pattern_KeepsHistory(s, c, adv) ==
    LET current_date == isoformat(today(c))
    IN  IF is_new_day(s, c)
        THEN LET new_pattern == create_pattern(c + adv)
             IN  [session |-> [daily_pattern |-> new_pattern,
                               date          |-> current_date,
                               game_history  |-> Get(s, "game_history", <<>>),
                               num_guesses   |-> Get(s, "num_guesses", 0)],
                  pattern |-> new_pattern]
        ELSE [session |-> s, pattern |-> s.daily_pattern]

\* The session and the value returned.  current_date is read on day c;
\* create_pattern reads the clock again, adv days later (0, or 1 when midnight
\* falls between the two reads).
get_current_daily_pattern(s, c, adv) ==
    LET current_date == isoformat(today(c))
    IN  IF is_new_day(s, c)
        THEN LET new_pattern == create_pattern(c + adv)
             IN  [session |-> [daily_pattern |-> new_pattern,
                               date          |-> current_date,
                               game_history  |-> <<>>,
                               num_guesses   |-> 0],
                  pattern |-> new_pattern]
        ELSE [session |-> s, pattern |-> s.daily_pattern]

\* the clock readings a handler that calls get_current_daily_pattern can see
Advances(s, c) ==
    IF is_new_day(s, c) /\ c < MaxDay THEN {0, 1} ELSE {0}

-----------------------------------------------------------------------------
(* index *)

index_result(s, c, adv) ==
    LET r == get_current_daily_pattern(s, c, adv)
    IN  [session  |-> r.session,
         response |-> [op     |-> "index",
                       status |-> 200,
                       initial_history     |-> Get(r.session, "game_history", <<>>),
                       initial_num_guesses |-> Get(r.session, "num_guesses", 0)]]

index(adv) ==
    /\ adv \in Advances(session, clock)
    /\ LET r == index_result(session, clock, adv)
       IN  /\ session' = r.session
           /\ response' = r.response
    /\ clock' = clock + adv
    /\ rng' = (IF is_new_day(session, clock) THEN after_create_pattern ELSE rng)
    /\ UNCHANGED <<probe, inflight>>

-----------------------------------------------------------------------------
(* start_game *)

\* fault: a full board is not yet over when the page loads
loaded_game_over_OffByOne(num_guesses, history) ==
    IF num_guesses > MAX_INPUTS THEN TRUE
    ELSE IF history # <<>> THEN history[Len(history)].reds = CODE_LENGTH
    ELSE FALSE

\* line 115: the game is already over when the page loads
loaded_game_over(num_guesses, history) ==
    IF num_guesses >= MAX_INPUTS THEN TRUE
    ELSE IF history # <<>> THEN history[Len(history)].reds = CODE_LENGTH
    ELSE FALSE

\* fault: the pattern is sent whether or not the game is over
pattern_field_Leak(over, current_pattern) == current_pattern

\* 'pattern': current_pattern if game_over else None
pattern_field(over, current_pattern) ==
    IF over THEN current_pattern ELSE Null

start_game_result(s, c, adv) ==
    LET r == get_current_daily_pattern(s, c, adv)
        current_pattern == r.pattern
        history == Get(r.session, "game_history", <<>>)
        num_guesses == Get(r.session, "num_guesses", 0)
        over == loaded_game_over(num_guesses, history)
    IN  [session  |-> r.session,
         response |-> [op          |-> "start_game",
                       status      |-> 200,
                       max_guesses |-> MAX_INPUTS,
                       history     |-> history,
                       num_guesses |-> num_guesses,
                       pattern     |-> pattern_field(over, current_pattern)]]

start_game(adv) ==
    /\ adv \in Advances(session, clock)
    /\ LET r == start_game_result(session, clock, adv)
       IN  /\ session' = r.session
           /\ response' = r.response
    /\ clock' = clock + adv
    /\ rng' = (IF is_new_day(session, clock) THEN after_create_pattern ELSE rng)
    /\ UNCHANGED <<probe, inflight>>

-----------------------------------------------------------------------------
(* make_guess *)

\* session[k] = v
Put(s, k, v) == [x \in DOMAIN s \cup {k} |-> IF x = k THEN v ELSE s[x]]

\* fault: > for >=
already_over_OffByOne(num_guesses, history) ==
    IF num_guesses > MAX_INPUTS THEN TRUE
    ELSE IF history # <<>> THEN history[Len(history)].reds = CODE_LENGTH
    ELSE FALSE

\* fault: a win does not end the game
already_over_CountOnly(num_guesses, history) == num_guesses >= MAX_INPUTS

\* line 139: the guard against a guess after the game ended
already_over(num_guesses, history) ==
    IF num_guesses >= MAX_INPUTS THEN TRUE
    ELSE IF history # <<>> THEN history[Len(history)].reds = CODE_LENGTH
    ELSE FALSE

\* line 145, negated: isinstance(guess, list) and len(guess) == CODE_LENGTH
\* A request body is [is_list, items]: data.get('guess') is a list of items,
\* or is anything else (None, a string, a number).
accepted_format(body) ==
    IF body.is_list THEN Len(body.items) = CODE_LENGTH ELSE FALSE

\* lines 161-162
is_win(reds) == reds = CODE_LENGTH

\* fault: a win does not end the game
is_game_over_CountOnly(win, num_guesses) == num_guesses >= MAX_INPUTS

is_game_over(win, num_guesses) ==
    IF win THEN TRUE ELSE num_guesses >= MAX_INPUTS

error_response(message) ==
    [op |-> "make_guess", status |-> 400, error |-> message]

\* fault: the incremented count is not saved
scored_guess_CountNotSaved(s, guess, current_pattern, num_guesses, history) ==
    LET score    == check_correct(guess, current_pattern)
        num      == num_guesses + 1
        entry    == [guess |-> guess, reds |-> score.reds, whites |-> score.whites]
        appended == Append(history, entry)
        win      == is_win(score.reds)
        over     == is_game_over(win, num)
    IN  [session  |-> Put(s, "game_history", appended),
         response |-> [op        |-> "make_guess",
                       status    |-> 200,
                       reds      |-> score.reds,
                       whites    |-> score.whites,
                       game_over |-> over,
                       win       |-> win,
                       pattern   |-> pattern_field(over, current_pattern)]]

\* fault: the new entry is put in front of the history
scored_guess_Prepends(s, guess, current_pattern, num_guesses, history) ==
    LET score    == check_correct(guess, current_pattern)
        num      == num_guesses + 1
        entry    == [guess |-> guess, reds |-> score.reds, whites |-> score.whites]
        appended == <<entry>> \o history
        win      == is_win(score.reds)
        over     == is_game_over(win, num)
    IN  [session  |-> Put(Put(s, "num_guesses", num), "game_history", appended),
         response |-> [op        |-> "make_guess",
                       status    |-> 200,
                       reds      |-> score.reds,
                       whites    |-> score.whites,
                       game_over |-> over,
                       win       |-> win,
                       pattern   |-> pattern_field(over, current_pattern)]]

\* lines 148-177: the guess is scored, appended and saved
scored_guess(s, guess, current_pattern, num_guesses, history) ==
    LET score    == check_correct(guess, current_pattern)
        num      == num_guesses + 1
        entry    == [guess |-> guess, reds |-> score.reds, whites |-> score.whites]
        appended == Append(history, entry)
        win      == is_win(score.reds)
        over     == is_game_over(win, num)
    IN  [session  |-> Put(Put(s, "num_guesses", num), "game_history", appended),
         response |-> [op        |-> "make_guess",
                       status    |-> 200,
                       reds      |-> score.reds,
                       whites    |-> score.whites,
                       game_over |-> over,
                       win       |-> win,
                       pattern   |-> pattern_field(over, current_pattern)]]

\* fault: the guess is counted before its format is checked
make_guess_result_CountsRejected(s, body) ==
    LET num_guesses == Get(s, "num_guesses", 0)
        history     == Get(s, "game_history", <<>>)
    IN  IF ~HasKey(s, "daily_pattern")
        THEN [session  |-> s,
              response |-> error_response("Game not started/State missing. Reload page.")]
        ELSE IF already_over(num_guesses, history)
        THEN [session  |-> s,
              response |-> error_response("Game already over.")]
        ELSE IF ~accepted_format(body)
        THEN [session  |-> Put(s, "num_guesses", num_guesses + 1),
              response |-> error_response("Invalid guess format. Must be a list of 4 integers.")]
        ELSE scored_guess(s, body.items, s.daily_pattern, num_guesses, history)

\* fault: the format of the guess is checked before the game-over guard
make_guess_result_FormatFirst(s, body) ==
    LET num_guesses == Get(s, "num_guesses", 0)
        history     == Get(s, "game_history", <<>>)
    IN  IF ~HasKey(s, "daily_pattern")
        THEN [session  |-> s,
              response |-> error_response("Game not started/State missing. Reload page.")]
        ELSE IF ~accepted_format(body)
        THEN [session  |-> s,
              response |-> error_response("Invalid guess format. Must be a list of 4 integers.")]
        ELSE IF already_over(num_guesses, history)
        THEN [session  |-> s,
              response |-> error_response("Game already over.")]
        ELSE scored_guess(s, body.items, s.daily_pattern, num_guesses, history)

make_guess_result(s, body) ==
    LET num_guesses == Get(s, "num_guesses", 0)
        history     == Get(s, "game_history", <<>>)
    IN  IF ~HasKey(s, "daily_pattern")
        THEN [session  |-> s,
              response |-> error_response("Game not started/State missing. Reload page.")]
        ELSE IF already_over(num_guesses, history)
        THEN [session  |-> s,
              response |-> error_response("Game already over.")]
        ELSE IF ~accepted_format(body)
        THEN [session  |-> s,
              response |-> error_response("Invalid guess format. Must be a list of 4 integers.")]
        ELSE scored_guess(s, body.items, s.daily_pattern, num_guesses, history)

(* The request bodies a client sends *)

ListBody(items) == [is_list |-> TRUE, items |-> items]

NotAList == [is_list |-> FALSE, items |-> <<>>]

\* a well-formed guess that is none of the generated patterns
WrongGuess == <<0, 0, 1, 2>>

\* four values, one of them no colour
OutOfRange == <<0, 1, 2, 6>>

TooShort == <<0, 1, 2>>

TooLong == <<0, 1, 2, 3, 4>>

\* the secret itself when the session holds one, and the guesses above
Bodies(s) ==
    {ListBody(g) : g \in {WrongGuess, OutOfRange, TooShort, TooLong}
                         \cup (IF HasKey(s, "daily_pattern")
                               THEN {s.daily_pattern} ELSE {})}
    \cup {NotAList}

make_guess(body) ==
    /\ body \in Bodies(session)
    /\ LET r == make_guess_result(session, body)
       IN  /\ session' = r.session
           /\ response' = r.response
    /\ UNCHANGED <<clock, probe, rng, inflight>>

-----------------------------------------------------------------------------
(* The wall clock passes midnight *)

Tick ==
    /\ clock < MaxDay
    /\ clock' = clock + 1
    /\ UNCHANGED <<session, response, probe, rng, inflight>>

-----------------------------------------------------------------------------
(* The session state machine *)

Idle == [stage |-> "idle"]

\* no request is being handled
NoneInFlight == <<>>

Init ==
    /\ clock = 0
    /\ session = EmptySession
    /\ response = [op |-> "none", status |-> 0]
    /\ probe = Idle
    /\ rng = np_random_seed_None
    /\ inflight = NoneInFlight

Next ==
    \/ \E adv \in {0, 1} : index(adv)
    \/ \E adv \in {0, 1} : start_game(adv)
    \/ \E body \in Bodies(session) : make_guess(body)
    \/ Tick

Spec == Init /\ [][Next]_vars

-----------------------------------------------------------------------------
(* The scorer on its own: every pattern, then every guess against it *)

Colours == 0..(NUM_COLORS - 1)

\* the sequences of CODE_LENGTH colours
Codes == {<<a, b, c, d>> : a, b, c, d \in Colours}

ScoreInit ==
    /\ clock = 0
    /\ session = EmptySession
    /\ response = [op |-> "none", status |-> 0]
    /\ \E p \in Codes : probe = [stage |-> "input", pattern |-> p]
    /\ rng = np_random_seed_None
    /\ inflight = NoneInFlight

Score(g) ==
    /\ LET r == check_correct(g, probe.pattern)
       IN  probe' = [stage   |-> "scored",
                     pattern |-> probe.pattern,
                     guess   |-> g,
                     reds    |-> r.reds,
                     whites  |-> r.whites]
    /\ UNCHANGED <<clock, session, response, rng, inflight>>

\* each pattern is scored once against each guess
ScoreNext ==
    /\ probe.stage = "input"
    /\ \E g \in Codes : Score(g)

SpecScore == ScoreInit /\ [][ScoreNext]_vars

-----------------------------------------------------------------------------
(* First visits handled by threads of one process.  Each worker serves the GET / *)
(* of a client of its own, whose session is empty; get_current_daily_pattern and *)
(* create_pattern are taken one call at a time, the clock and np.random shared.  *)

\* the worker threads of the process
NumWorkers == 2

Workers == 1..NumWorkers

FirstVisit ==
    [pc           |-> "start",
     current_date |-> Null,
     seed_value   |-> 0,
     pattern      |-> Null,
     session      |-> EmptySession]

GenInit ==
    /\ clock = 0
    /\ session = EmptySession
    /\ response = [op |-> "none", status |-> 0]
    /\ probe = Idle
    /\ rng = np_random_seed_None
    /\ inflight = [w \in Workers |-> FirstVisit]

\* lines 46, 49: current_date is read; the empty session makes it a new day
gen_current_date(w) ==
    /\ inflight[w].pc = "start"
    /\ is_new_day(inflight[w].session, clock)
    /\ inflight' = [inflight EXCEPT ![w].pc = "new_day",
                                    ![w].current_date = isoformat(today(clock))]
    /\ UNCHANGED <<clock, session, response, probe, rng>>

\* lines 34-36: create_pattern reads the clock itself
gen_seed_value(w) ==
    /\ inflight[w].pc = "new_day"
    /\ inflight' = [inflight EXCEPT
                      ![w].pc = "seed_value",
                      ![w].seed_value = strftime_int(today(clock)) + SECRET_OFFSET]
    /\ UNCHANGED <<clock, session, response, probe, rng>>

\* line 37: np.random.seed(seed_value)
gen_seed(w) ==
    /\ inflight[w].pc = "seed_value"
    /\ rng' = np_random_seed(inflight[w].seed_value)
    /\ inflight' = [inflight EXCEPT ![w].pc = "seeded"]
    /\ UNCHANGED <<clock, session, response, probe>>

\* what np.random.choice(6, 4) can return from generator state r
choice_outcomes(r) ==
    IF r.kind = "seeded" THEN {seeded_next_choice(r)} ELSE Codes

\* line 38: pattern = np.random.choice(6, 4).tolist()
gen_choice(w) ==
    /\ inflight[w].pc = "seeded"
    /\ \E p \in choice_outcomes(rng) :
          inflight' = [inflight EXCEPT ![w].pc = "drawn", ![w].pattern = p]
    /\ rng' = after_choice(rng)
    /\ UNCHANGED <<clock, session, response, probe>>

\* line 39: np.random.seed(None)
gen_reseed(w) ==
    /\ inflight[w].pc = "drawn"
    /\ rng' = np_random_seed_None
    /\ inflight' = [inflight EXCEPT ![w].pc = "returned"]
    /\ UNCHANGED <<clock, session, response, probe>>

\* lines 53-57: the new state is saved to the client's session
gen_store(w) ==
    /\ inflight[w].pc = "returned"
    /\ inflight' = [inflight EXCEPT
                      ![w].pc = "done",
                      ![w].session = [daily_pattern |-> inflight[w].pattern,
                                      date          |-> inflight[w].current_date,
                                      game_history  |-> <<>>,
                                      num_guesses   |-> 0]]
    /\ UNCHANGED <<clock, session, response, probe, rng>>

GenNext ==
    \/ \E w \in Workers : gen_current_date(w)
    \/ \E w \in Workers : gen_seed_value(w)
    \/ \E w \in Workers : gen_seed(w)
    \/ \E w \in Workers : gen_choice(w)
    \/ \E w \in Workers : gen_reseed(w)
    \/ \E w \in Workers : gen_store(w)
    \/ Tick

SpecGen == GenInit /\ [][GenNext]_vars

-----------------------------------------------------------------------------
(* Overlapping make_guess requests of one client.  The session is a cookie: a  *)
(* request works on the copy the client sent with it, and a response that      *)
(* modified the session replaces the client's cookie (last write wins).  Each  *)
(* worker handles one such request in two steps; make_guess requests that      *)
(* overlap nothing are taken whole, as in Spec.  The client has loaded the     *)
(* page: the first state is the one its first GET / leaves.                    *)

\* the two requests that overlap, sent from two tabs of the client
Tabs == {"tab1", "tab2"}

Waiting == [pc |-> "idle", snapshot |-> EmptySession, body |-> NotAList,
            status |-> 0, over_at_write |-> FALSE]

RaceInit ==
    /\ clock = 0
    /\ session = index_result(EmptySession, 0, 0).session
    /\ response = index_result(EmptySession, 0, 0).response
    /\ probe = Idle
    /\ rng = np_random_seed_None
    /\ inflight = [w \in Tabs |-> Waiting]

\* the guesses of the overlapping game: a wrong one and the secret
RaceBodies(s) ==
    {ListBody(WrongGuess)}
    \cup (IF HasKey(s, "daily_pattern") THEN {ListBody(s.daily_pattern)} ELSE {})

\* lines 131-133, 142-143: the request arrives with the client's cookie
race_begin(w, body) ==
    /\ inflight[w].pc = "idle"
    /\ body \in RaceBodies(session)
    /\ inflight' = [inflight EXCEPT ![w].pc = "read",
                                    ![w].snapshot = session,
                                    ![w].body = body]
    /\ UNCHANGED <<clock, session, response, probe, rng>>

\* fault: the handler works on the session as stored when it writes
race_outcome_ReadsAtWrite(snapshot, stored, body) ==
    make_guess_result(stored, body)

\* lines 135-177 on the copy read; the cookie is set only when the session was
\* modified (session.modified = True, line 167), else the client keeps its own
race_outcome(snapshot, stored, body) ==
    LET r == make_guess_result(snapshot, body)
    IN  [session  |-> IF r.response.status = 200 THEN r.session ELSE stored,
         response |-> r.response]

race_finish(w) ==
    /\ inflight[w].pc = "read"
    /\ LET r == race_outcome(inflight[w].snapshot, session, inflight[w].body)
       IN  /\ session' = r.session
           /\ response' = r.response
           /\ inflight' = [inflight EXCEPT
                             ![w].pc = "done",
                             ![w].status = r.response.status,
                             ![w].over_at_write =
                                 IF r.response.status = 200
                                 THEN loaded_game_over(Get(session, "num_guesses", 0),
                                                       Get(session, "game_history", <<>>))
                                 ELSE FALSE]
    /\ UNCHANGED <<clock, probe, rng>>

RaceNext ==
    \/ \E body \in RaceBodies(session) : make_guess(body)
    \/ \E w \in Tabs : \E body \in RaceBodies(session) : race_begin(w, body)
    \/ \E w \in Tabs : race_finish(w)

SpecRace == RaceInit /\ [][RaceNext]_vars

-----------------------------------------------------------------------------
(* Vocabulary of the properties *)

\* the stored state is that of a finished game: the guesses are used up, or the
\* last entry of the history is a win
GameIsOver(s) ==
    LET h == Get(s, "game_history", <<>>)
    IN  ~(Get(s, "num_guesses", 0) < MAX_INPUTS
          /\ (h = <<>> \/ h[Len(h)].reds < CODE_LENGTH))

\* a step of one of the three handlers
IndexStep == \E adv \in {0, 1} : index(adv)

StartGameStep == \E adv \in {0, 1} : start_game(adv)

MakeGuessStep == \E body \in Bodies(session) : make_guess(body)

RequestStep == IndexStep \/ StartGameStep \/ MakeGuessStep

Succeeded(r, op) == r.op = op /\ r.status = 200

-----------------------------------------------------------------------------
\* C1: a successful start_game or make_guess response carries pattern = null
\* while the game it leaves behind is not over, and the stored pattern once it
\* is over (a win, or MAX_INPUTS guesses).
C1_PatternOnlyWhenOver ==
    (Succeeded(response, "start_game") \/ Succeeded(response, "make_guess"))
        => response.pattern = (IF GameIsOver(session)
                               THEN session.daily_pattern ELSE Null)

\* the last guess was used up without a win and the response reveals the pattern
C1_Witness ==
    /\ Succeeded(response, "make_guess")
    /\ ~response.win
    /\ response.pattern = session.daily_pattern
    /\ session.num_guesses = MAX_INPUTS

\* the session holds the state generated on day d
StoredForDay(s, d) ==
    /\ HasKey(s, "date")
    /\ s.date = isoformat(today(d))
    /\ s.daily_pattern = create_pattern(d)

\* a make_guess step whose guess has the accepted format
GuessStep ==
    \E body \in Bodies(session) : accepted_format(body) /\ make_guess(body)

\* C2: once the clock is past the day d whose state the session holds, an
\* index, a start_game or a make_guess (of a guess in the accepted format)
\* leaves the session holding today's state: today's date and pattern, and no
\* entry of day d's history (at most the one guess this request scored); the
\* guess is neither scored against day d's pattern nor rejected for day d's
\* history.
C2_NoStaleDayServed ==
    [][\A d \in 0..MaxDay :
         (d < clock /\ StoredForDay(session, d)
            /\ (IndexStep \/ StartGameStep \/ GuessStep))
            => /\ session'.date = isoformat(today(clock))
               /\ session'.daily_pattern = create_pattern(clock)
               /\ session'.num_guesses <= 1]_vars

\* some entry of the history is a win
HasWin(h) == \E i \in DOMAIN h : h[i].reds = CODE_LENGTH

GameOverError == error_response("Game already over.")

\* C3: when the MAX_INPUTS-th guess is scored and it is not the pattern, the
\* response has game_over = true and win = false; and from a session with
\* MAX_INPUTS guesses every make_guess is answered 'Game already over.' and
\* leaves the session as it was.
C3_ExhaustedGuesses ==
    /\ []((/\ Succeeded(response, "make_guess")
           /\ session.num_guesses = MAX_INPUTS
           /\ session.game_history[MAX_INPUTS].guess # session.daily_pattern)
             => (response.game_over /\ ~response.win))
    /\ [][(Get(session, "num_guesses", 0) = MAX_INPUTS /\ MakeGuessStep)
            => (response' = GameOverError /\ session' = session)]_vars

\* a further guess was refused after twelve guesses without a win
C3_Witness ==
    /\ response = GameOverError
    /\ session.num_guesses = MAX_INPUTS
    /\ Len(session.game_history) = MAX_INPUTS
    /\ ~HasWin(session.game_history)

\* C4: from a stored game with fewer than MAX_INPUTS guesses and no win, a
\* make_guess of the stored pattern is answered reds = 4, whites = 0,
\* win = true, game_over = true and the stored pattern.
C4_WinningGuess ==
    [][(/\ HasKey(session, "daily_pattern")
        /\ session.num_guesses < MAX_INPUTS
        /\ ~HasWin(session.game_history)
        /\ make_guess(ListBody(session.daily_pattern)))
          => response' = [op        |-> "make_guess",
                          status    |-> 200,
                          reds      |-> CODE_LENGTH,
                          whites    |-> 0,
                          game_over |-> TRUE,
                          win       |-> TRUE,
                          pattern   |-> session.daily_pattern]]_vars

\* the game was won with the last guess allowed
C4_Witness ==
    /\ Succeeded(response, "make_guess")
    /\ response.win
    /\ session.num_guesses = MAX_INPUTS

\* C5: a make_guess answered with an error leaves the session (date, pattern,
\* history, guess count) exactly as it was.
C5_RejectedGuessNoEffect ==
    [][(response'.status = 400 /\ MakeGuessStep) => session' = session]_vars

\* a malformed guess was refused in the middle of a game
C5_Witness ==
    /\ response = error_response("Invalid guess format. Must be a list of 4 integers.")
    /\ HasKey(session, "num_guesses")
    /\ session.num_guesses > 0

\* C6: the stored guess count is the length of the stored history, which is
\* at most MAX_INPUTS.
C6_CountIsHistoryLength ==
    /\ Get(session, "num_guesses", 0) = Len(Get(session, "game_history", <<>>))
    /\ Len(Get(session, "game_history", <<>>)) <= MAX_INPUTS

\* the history is full
C6_Witness ==
    /\ HasKey(session, "game_history")
    /\ Len(session.game_history) = MAX_INPUTS
    /\ Succeeded(response, "make_guess")

\* C7: an entry of the stored history with reds = 4 is its last entry.
C7_WinIsLastEntry ==
    LET h == Get(session, "game_history", <<>>)
    IN  \A i \in DOMAIN h : h[i].reds = CODE_LENGTH => i = Len(h)

\* a game won after other guesses, and a guess refused after the win
C7_Witness ==
    /\ response = GameOverError
    /\ Len(session.game_history) > 1
    /\ Len(session.game_history) < MAX_INPUTS
    /\ HasWin(session.game_history)

\* the stored date is the date of day c
StoredDateIs(s, c) == HasKey(s, "date") /\ s.date = isoformat(today(c))

\* C8: when the stored date is today's date, get_current_daily_pattern leaves
\* the session as it is and returns the stored pattern, and so an index or a
\* start_game step changes nothing of the session; start_game reports the
\* stored history and guess count.
C8_SameDayIdempotent ==
    /\ [](StoredDateIs(session, clock)
            => get_current_daily_pattern(session, clock, 0)
                 = [session |-> session, pattern |-> session.daily_pattern])
    /\ [][(StoredDateIs(session, clock) /\ (IndexStep \/ StartGameStep))
            => /\ session' = session
               /\ clock' = clock
               /\ (response'.op = "start_game"
                     => /\ response'.history = session.game_history
                        /\ response'.num_guesses = session.num_guesses)]_vars

\* start_game in the middle of a day's game, the progress kept
C8_Witness ==
    /\ Succeeded(response, "start_game")
    /\ StoredDateIs(session, clock)
    /\ session.num_guesses > 0
    /\ response.num_guesses = session.num_guesses

-----------------------------------------------------------------------------
(* Properties of the scorer, under SpecScore *)

Scored == probe.stage = "scored"

\* C9: for every guess and pattern of four colours, reds + whites <= 4, and
\* reds = 4 exactly when the guess is the pattern.
C9_ScoreBounds ==
    Scored => /\ probe.reds + probe.whites <= CODE_LENGTH
              /\ (probe.reds = CODE_LENGTH) <=> (probe.guess = probe.pattern)

\* a guess that permutes the pattern: every peg white
C9_Witness ==
    /\ Scored
    /\ probe.whites = CODE_LENGTH
    /\ probe.guess # probe.pattern

\* the case of the example
Example == Scored /\ probe.pattern = <<0, 0, 1, 2>> /\ probe.guess = <<0, 1, 1, 1>>

\* C10 as stated: pattern [0,0,1,2] against guess [0,1,1,1] scores
\* exactMatches = 1 and colorMatches = 2.
C10_ExampleAsStated ==
    Example => (probe.reds = 1 /\ probe.whites = 2)

\* C10 amended: pattern [0,0,1,2] against guess [0,1,1,1] scores
\* exactMatches = 2 (positions 1 and 3) and colorMatches = 0.
C10_Example ==
    Example => (probe.reds = 2 /\ probe.whites = 0)

C10_Witness == Example /\ probe.reds + probe.whites = 2

-----------------------------------------------------------------------------
\* a guess of exactly CODE_LENGTH colours
WellFormedGuess(body) ==
    /\ body.is_list
    /\ Len(body.items) = CODE_LENGTH
    /\ \A i \in DOMAIN body.items : body.items[i] \in Colours

\* C11: a make_guess whose guess is not exactly four values in 0..5 (a
\* four-element list with a value out of range included) is answered with a
\* client error, and nothing is scored or appended.
C11_MalformedGuessRejected ==
    [][\A body \in Bodies(session) :
         (~WellFormedGuess(body) /\ make_guess(body))
            => (response'.status = 400 /\ session' = session)]_vars

-----------------------------------------------------------------------------
(* Properties of the generator, under SpecGen *)

\* worker w has its pattern from create_pattern
HasDrawn(w) == inflight[w].pc \in {"drawn", "returned", "done"}

\* C12: two calls of create_pattern that read the same calendar date return
\* the same sequence, and two sessions that store the same date store the same
\* pattern, the requests being handled by threads of one process.
C12_SameDateSamePattern ==
    \A v, w \in Workers :
        /\ (HasDrawn(v) /\ HasDrawn(w)
              /\ inflight[v].seed_value = inflight[w].seed_value)
             => inflight[v].pattern = inflight[w].pattern
        /\ (inflight[v].pc = "done" /\ inflight[w].pc = "done"
              /\ inflight[v].session.date = inflight[w].session.date)
             => inflight[v].session.daily_pattern = inflight[w].session.daily_pattern

\* C13: no call made by create_pattern changes the state of the process-wide
\* generator: it is neither seeded nor reseeded nor drawn from.
C13_GeneratorUntouched ==
    [][rng' = rng]_vars

-----------------------------------------------------------------------------
(* Properties of overlapping guesses, under SpecRace *)

Done(w) == inflight[w].pc = "done"

\* the entry a guess gets against the pattern of session s
EntryFor(s, guess) ==
    LET score == check_correct(guess, s.daily_pattern)
    IN  [guess |-> guess, reds |-> score.reds, whites |-> score.whites]

\* C14: two overlapping make_guess requests that read the same stored state,
\* not yet over, are both scored; and each scored request stores the state it
\* read plus its own entry only, whatever was stored meanwhile, so that of two
\* such requests one entry is kept and the stored count is the count read plus
\* one.
C14_LastWriteWins ==
    /\ [](\A v, w \in Tabs :
            (/\ v # w /\ Done(v) /\ Done(w)
             /\ inflight[v].snapshot = inflight[w].snapshot
             /\ ~GameIsOver(inflight[v].snapshot))
               => (inflight[v].status = 200 /\ inflight[w].status = 200))
    /\ [][\A w \in Tabs :
            (race_finish(w) /\ response'.status = 200)
               => LET read == inflight[w].snapshot
                  IN  /\ session'.num_guesses = read.num_guesses + 1
                      /\ session'.game_history
                           = Append(read.game_history,
                                    EntryFor(read, inflight[w].body.items))]_vars

\* both tabs read the state after eleven guesses; one produced the twelfth
\* guess, and the other was scored all the same: thirteen guesses scored,
\* twelve stored
C14_Witness ==
    /\ \A w \in Tabs : Done(w) /\ inflight[w].status = 200
    /\ inflight["tab1"].snapshot = inflight["tab2"].snapshot
    /\ inflight["tab1"].snapshot.num_guesses = MAX_INPUTS - 1
    /\ \E w \in Tabs : inflight[w].over_at_write
    /\ session.num_guesses = MAX_INPUTS

-----------------------------------------------------------------------------
(* The scorer against its definition, under SpecScore *)

\* the positions of seq that hold v
Positions(seq, v) == {i \in DOMAIN seq : seq[i] = v}

RECURSIVE CommonUpTo(_, _, _)
\* the sum over the colours 0..v of min(count in g, count in p)
CommonUpTo(g, p, v) ==
    IF v < 0 THEN 0
    ELSE CommonUpTo(g, p, v - 1)
         + Min(Cardinality(Positions(g, v)), Cardinality(Positions(p, v)))

\* C17: for every guess g and pattern p of four colours, reds is the number of
\* positions where g and p agree, whites is the sum over the colours of
\* min(count in g, count in p) less reds, and whites is not negative.
C17_ScoreDefinition ==
    Scored =>
        /\ probe.reds
             = Cardinality({i \in 1..CODE_LENGTH : probe.guess[i] = probe.pattern[i]})
        /\ probe.whites
             = CommonUpTo(probe.guess, probe.pattern, NUM_COLORS - 1) - probe.reds
        /\ probe.whites >= 0

\* repeated colours on both sides: one peg in place, one more in common
C17_Witness ==
    /\ Scored
    /\ probe.pattern = <<1, 1, 2, 3>>
    /\ probe.guess = <<1, 0, 1, 1>>
    /\ probe.reds = 1
    /\ probe.whites = 1

-----------------------------------------------------------------------------
(* Further properties of the session state machine, under Spec *)

IsPrefix(h, k) == Len(h) <= Len(k) /\ SubSeq(k, 1, Len(h)) = h

\* C15: requests handled one at a time, a successful make_guess makes the
\* history the old history followed by the one entry {guess, reds, whites} of
\* its response and adds one to the count; and while the stored date stays the
\* same no step removes, reorders or alters an entry.
C15_AppendOnly ==
    /\ [](\A body \in Bodies(session) :
            LET r == make_guess_result(session, body)
            IN  r.response.status = 200
                  => /\ r.session.game_history
                          = Append(session.game_history,
                                   [guess  |-> body.items,
                                    reds   |-> r.response.reds,
                                    whites |-> r.response.whites])
                     /\ r.session.num_guesses = session.num_guesses + 1)
    /\ [][(/\ HasKey(session, "date") /\ HasKey(session', "date")
           /\ session'.date = session.date)
            => /\ IsPrefix(session.game_history, session'.game_history)
               /\ Len(session'.game_history) <= Len(session.game_history) + 1]_vars

\* a third guess was appended
C15_Witness ==
    /\ Succeeded(response, "make_guess")
    /\ Len(session.game_history) = 3
    /\ session.game_history[1].guess # session.game_history[3].guess

StateMissingError ==
    error_response("Game not started/State missing. Reload page.")

InvalidFormatError ==
    error_response("Invalid guess format. Must be a list of 4 integers.")

\* C16: make_guess applies its guards in this order: without a stored pattern
\* the answer is the state-missing error whatever the body, and no state is
\* created; else, the game being over, it is 'Game already over.' even for a
\* malformed guess; only else is the format checked.
C16_GuardOrder ==
    \A body \in Bodies(session) :
        LET r == make_guess_result(session, body)
        IN  IF ~HasKey(session, "daily_pattern")
            THEN r.response = StateMissingError /\ r.session = EmptySession
            ELSE IF GameIsOver(session)
            THEN r.response = GameOverError
            ELSE (r.response = InvalidFormatError) <=> ~accepted_format(body)

\* the game is over, and a guess that is no list is told so, not that it is
\* malformed
C16_Witness ==
    /\ response = GameOverError
    /\ GameIsOver(session)
    /\ make_guess_result(session, NotAList).response = response

\* C18: in every session state the stored pattern is the one generated for
\* the stored date, also when the date advances between the clock reading of
\* get_current_daily_pattern and that of create_pattern.
C18_PatternOfStoredDate ==
    HasKey(session, "date")
        => \E d \in 0..MaxDay : StoredForDay(session, d)

\* C19: in every session state each history entry holds the score of its
\* guess against the pattern stored in the same session; a reset leaves no
\* entry scored against another pattern.
C19_EntriesScoredAgainstStored ==
    HasKey(session, "daily_pattern")
        => \A i \in DOMAIN session.game_history :
              session.game_history[i]
                 = EntryFor(session, session.game_history[i].guess)

\* guesses of the day after a reset, the first day's pattern being another
C19_Witness ==
    /\ clock = 1
    /\ StoredDateIs(session, 1)
    /\ session.daily_pattern # create_pattern(0)
    /\ Len(session.game_history) = 2
    /\ session.game_history[2] = EntryFor(session, WrongGuess)

\* C20: the state a successful make_guess stored being the stored state still
\* (and, for start_game, of today), game_over in its response is true exactly
\* when the next make_guess is answered 'Game already over.', and exactly when
\* start_game sends a pattern.
C20_GameOverAgrees ==
    Succeeded(response, "make_guess")
        => /\ \A body \in Bodies(session) :
                response.game_over
                   <=> (make_guess_result(session, body).response = GameOverError)
           /\ StoredDateIs(session, clock)
                => (response.game_over
                      <=> (start_game_result(session, clock, 0).response.pattern
                              # Null))

\* the last guess of a full board, no win: the three computations say over
C20_Witness ==
    /\ Succeeded(response, "make_guess")
    /\ response.game_over
    /\ ~response.win
    /\ StoredDateIs(session, clock)
    /\ make_guess_result(session, ListBody(WrongGuess)).response
          = GameOverError
    /\ start_game_result(session, clock, 0).response.pattern = session.daily_pattern

=============================================================================
